---- MODULE Spec2Model ----
(***************************************************************************)
(* Model of scripts/slot_tagging_and_intent_detection_by_HG.py: the        *)
(* configuration checks, the mode-dependent setup, the training loop with  *)
(* its per-epoch validation/test decode passes and checkpointing, and the  *)
(* decode function with its chunk-based slot scoring and set-based intent  *)
(* scoring.  The neural networks are abstracted to the values they hand to *)
(* the driver: a tag row and an intent output per example, drawn from      *)
(* small sets.  Floats are modelled as exact rationals.                    *)
(***************************************************************************)
EXTENDS Integers, Sequences, FiniteSets, TLC

\* ------------------------------------------------------------------ bounds
NTrain == 2        \* examples in the training split of an epoch taken alone
NEval == 1         \* examples in each split of a full run
NDecode == 2       \* examples in a split handed to a stand-alone decode pass
MaxEpoch == 2      \* opt.max_epoch
MaxBatch == 2      \* largest batch size tried

\* ------------------------------------------------------------ vocabularies
\* id -> label tables (python ids are 0-based, sequences here are 1-based)
idx_to_tag == <<"<pad>", "O", "B-a", "I-a", "B-b">>
idx_to_class == <<"A", "B", "C">>
idx_to_word == <<"<pad>", "<unk>", "book", "a", "flight">>

TagOf(id) == idx_to_tag[id + 1]
ClassOf(id) == idx_to_class[id + 1]
WordOf(id) == idx_to_word[id + 1]

ClassIds == 0 .. (Len(idx_to_class) - 1)

\* ----------------------------------------------------------------- helpers
Min(a, b) == IF a < b THEN a ELSE b

Range(s) == {s[k] : k \in DOMAIN s}

\* python seq[a:b] on a 1-based sequence (a, b are 0-based offsets)
Slice(s, a, b) == SubSeq(s, a + 1, Min(b, Len(s)))

\* np.arange(n)
Arange(n) == [k \in 1 .. n |-> k - 1]

RECURSIVE JoinStr(_, _)
JoinStr(s, sep) ==
    IF Len(s) = 0 THEN ""
    ELSE IF Len(s) = 1 THEN s[1]
    ELSE s[1] \o sep \o JoinStr(Tail(s), sep)

\* ---------------------------------------------------------------- rationals
RECURSIVE GCD(_, _)
GCD(a, b) == IF b = 0 THEN a ELSE GCD(b, a % b)

Abs(x) == IF x < 0 THEN -x ELSE x

Frac(n, d) == LET g == GCD(Abs(n), Abs(d)) IN [n |-> n \div g, d |-> d \div g]

ZeroDivision == [n |-> 0, d |-> 0]

\* python true division n / d
Div(n, d) == IF d = 0 THEN ZeroDivision ELSE Frac(n, d)

Zero == [n |-> 0, d |-> 1]
One == [n |-> 1, d |-> 1]

FracAdd(a, b) == Frac(a.n * b.d + b.n * a.d, a.d * b.d)
FracSub(a, b) == Frac(a.n * b.d - b.n * a.d, a.d * b.d)
FracMul(a, b) == Frac(a.n * b.n, a.d * b.d)
FracLess(a, b) == a.n * b.d < b.n * a.d
FracEq(a, b) == a.n * b.d = b.n * a.d

\* ------------------------------------------------- python floats (doubles)
\* Natural numbers of any size: limbs to the base 2^15, least significant
\* first, no leading zero limb (zero is the empty sequence).
Base == 32768

RECURSIVE NatTrim(_)
NatTrim(x) == IF Len(x) > 0 /\ x[Len(x)] = 0 THEN NatTrim(SubSeq(x, 1, Len(x) - 1)) ELSE x

RECURSIVE NatFromInt(_)
NatFromInt(n) == IF n = 0 THEN <<>> ELSE <<n % Base>> \o NatFromInt(n \div Base)

RECURSIVE NatAddCarry(_, _, _)
NatAddCarry(x, y, c) ==
    IF Len(x) = 0 /\ Len(y) = 0 THEN (IF c = 0 THEN <<>> ELSE <<c>>)
    ELSE LET a == IF Len(x) > 0 THEN x[1] ELSE 0
             b == IF Len(y) > 0 THEN y[1] ELSE 0
             t == a + b + c
         IN  <<t % Base>> \o NatAddCarry(IF Len(x) > 0 THEN Tail(x) ELSE x,
                                         IF Len(y) > 0 THEN Tail(y) ELSE y, t \div Base)

NatAdd(x, y) == NatAddCarry(x, y, 0)

\* x - y for x >= y
RECURSIVE NatSubBorrow(_, _, _)
NatSubBorrow(x, y, c) ==
    IF Len(x) = 0 THEN <<>>
    ELSE LET b == IF Len(y) > 0 THEN y[1] ELSE 0
             t == x[1] - b - c
         IN  <<(t + Base) % Base>> \o NatSubBorrow(Tail(x), IF Len(y) > 0 THEN Tail(y) ELSE y,
                                                  IF t < 0 THEN 1 ELSE 0)

NatSub(x, y) == NatTrim(NatSubBorrow(x, y, 0))

\* x * c for 0 <= c < 2^15
RECURSIVE NatMulCarry(_, _, _)
NatMulCarry(x, c, carry) ==
    IF Len(x) = 0 THEN (IF carry = 0 THEN <<>> ELSE <<carry>>)
    ELSE LET t == x[1] * c + carry
         IN  <<t % Base>> \o NatMulCarry(Tail(x), c, t \div Base)

NatMulSmall(x, c) == IF c = 0 THEN <<>> ELSE NatMulCarry(x, c, 0)

RECURSIVE NatMul(_, _)
NatMul(x, y) ==
    IF Len(x) = 0 \/ Len(y) = 0 THEN <<>>
    ELSE LET rest == NatMul(x, Tail(y))
         IN  NatAdd(NatMulSmall(x, y[1]), IF Len(rest) = 0 THEN <<>> ELSE <<0>> \o rest)

\* quotient and remainder of x by d, 0 < d < 2^16, from the top limb down
RECURSIVE NatDivRem(_, _, _)
NatDivRem(x, d, k) ==
    IF k > Len(x) THEN [q |-> <<>>, r |-> 0]
    ELSE LET up == NatDivRem(x, d, k + 1)
             cur == up.r * Base + x[k]
         IN  [q |-> <<cur \div d>> \o up.q, r |-> cur % d]

NatDivSmall(x, d) == LET res == NatDivRem(x, d, 1) IN [q |-> NatTrim(res.q), r |-> res.r]

RECURSIVE NatLessFrom(_, _, _)
NatLessFrom(x, y, k) ==
    IF k = 0 THEN FALSE
    ELSE IF x[k] # y[k] THEN x[k] < y[k]
    ELSE NatLessFrom(x, y, k - 1)

NatLess(x, y) == IF Len(x) # Len(y) THEN Len(x) < Len(y) ELSE NatLessFrom(x, y, Len(x))

\* number of bits of a limb
BitsOf(n) ==
    IF n < 128
    THEN (IF n < 8 THEN (IF n < 2 THEN n ELSE IF n < 4 THEN 2 ELSE 3)
          ELSE IF n < 32 THEN (IF n < 16 THEN 4 ELSE 5) ELSE IF n < 64 THEN 6 ELSE 7)
    ELSE (IF n < 2048 THEN (IF n < 512 THEN (IF n < 256 THEN 8 ELSE 9) ELSE IF n < 1024 THEN 10 ELSE 11)
          ELSE IF n < 8192 THEN (IF n < 4096 THEN 12 ELSE 13) ELSE IF n < 16384 THEN 14 ELSE 15)

NatBitLen(x) == IF Len(x) = 0 THEN 0 ELSE 15 * (Len(x) - 1) + BitsOf(x[Len(x)])

\* x * 2^k and floor(x / 2^k)
NatShl(x, k) ==
    LET s == k \div 15
        lo == 2 ^ (15 - (k % 15))
        hi == 2 ^ (k % 15)
        At(j) == IF j >= 1 /\ j <= Len(x) THEN x[j] ELSE 0
    IN  IF Len(x) = 0 THEN <<>>
        ELSE NatTrim([n \in 1 .. (Len(x) + s + 1) |->
                         (At(n - s) % lo) * hi + (At(n - s - 1) \div lo)])

NatShr(x, k) ==
    LET s == k \div 15
        lo == 2 ^ (k % 15)
        hi == 2 ^ (15 - (k % 15))
        At(j) == IF j <= Len(x) THEN x[j] ELSE 0
    IN  IF s >= Len(x) THEN <<>>
        ELSE NatTrim([n \in 1 .. (Len(x) - s) |-> (At(n + s) \div lo) + (At(n + s + 1) % lo) * hi])

\* x has a one among its k lowest bits
NatLowBits(x, k) ==
    \E n \in 1 .. Len(x) :
        \/ n <= k \div 15 /\ x[n] # 0
        \/ n = (k \div 15) + 1 /\ x[n] % (2 ^ (k % 15)) # 0

NatIsOdd(x) == Len(x) > 0 /\ x[1] % 2 = 1

\* A finite double: (-1)^neg * m * 2^e, m of exactly 53 bits, or zero.  The
\* values of this script stay far from the overflow and subnormal ranges.
FlZero == [neg |-> FALSE, m |-> <<>>, e |-> 0]

\* round-to-nearest-even of n * 2^e (plus a positive amount below one unit
\* of n when sticky) to 53 bits
FlRound(neg, n, e, sticky) ==
    LET len == NatBitLen(n)
    IN  IF len = 0 THEN FlZero
        ELSE IF len <= 53 THEN [neg |-> neg, m |-> NatShl(n, 53 - len), e |-> e - (53 - len)]
        ELSE LET k == len - 53
                 q == NatShr(n, k)
                 guard == NatIsOdd(NatShr(n, k - 1))
                 up == guard /\ (sticky \/ NatLowBits(n, k - 1) \/ NatIsOdd(q))
                 q1 == IF up THEN NatAdd(q, <<1>>) ELSE q
             IN  IF NatBitLen(q1) > 53
                 THEN [neg |-> neg, m |-> NatShr(q1, 1), e |-> e + k + 1]
                 ELSE [neg |-> neg, m |-> q1, e |-> e + k]

\* the double nearest to the rational n / d (a float literal, or the true
\* division of two counters)
FlFromFrac(a) ==
    LET res == NatDivSmall(IF a.n = 0 THEN <<>> ELSE <<0, 0, 0, 0, 0>> \o NatFromInt(Abs(a.n)), a.d)
    IN  FlRound(a.n < 0, res.q, -75, res.r # 0)

FlNeg(x) == IF x = FlZero THEN x ELSE [x EXCEPT !.neg = ~x.neg]

FlMul(x, y) ==
    IF x = FlZero \/ y = FlZero THEN FlZero
    ELSE FlRound(x.neg # y.neg, NatMul(x.m, y.m), x.e + y.e, FALSE)

\* x + y, exact sum rounded once
FlAdd(x, y) ==
    IF x = FlZero THEN y
    ELSE IF y = FlZero THEN x
    ELSE LET e == Min(x.e, y.e)
             a == NatShl(x.m, x.e - e)
             b == NatShl(y.m, y.e - e)
         IN  IF x.neg = y.neg THEN FlRound(x.neg, NatAdd(a, b), e, FALSE)
             ELSE IF NatLess(a, b) THEN FlRound(y.neg, NatSub(b, a), e, FALSE)
             ELSE FlRound(x.neg, NatSub(a, b), e, FALSE)

FlSub(x, y) == FlAdd(x, FlNeg(y))

\* |x| < |y| for nonzero x and y
FlMagLess(x, y) == IF x.e # y.e THEN x.e < y.e ELSE NatLess(x.m, y.m)

\* x < y
FlLess(x, y) ==
    IF x = FlZero THEN y # FlZero /\ ~y.neg
    ELSE IF y = FlZero THEN x.neg
    ELSE IF x.neg # y.neg THEN x.neg
    ELSE IF x.neg THEN FlMagLess(y, x)
    ELSE FlMagLess(x, y)

\* ------------------------------------------------------------- tag labels
\* labels[idx][:1] and labels[idx][2:] of a BIO label
Outside(t) == t \in {"O", "<pad>"}
BioOf(t) == CASE t \in {"B-a", "B-b"} -> "B"
              [] t \in {"I-a", "I-b"} -> "I"
              [] OTHER -> "O"
TypeOf(t) == CASE t \in {"B-a", "I-a"} -> "a"
               [] t \in {"B-b", "I-b"} -> "b"
               [] OTHER -> "O"

\* a raw gold tag is either a vocabulary id or the label string itself
RawId(id) == [isint |-> TRUE, id |-> id, s |-> ""]
RawStr(s) == [isint |-> FALSE, id |-> -1, s |-> s]

\* a raw single-label gold intent is either one class id or a collection of
\* class names
ClsId(id) == [isint |-> TRUE, id |-> id, names |-> {}]
ClsNames(S) == [isint |-> FALSE, id |-> -1, names |-> S]

\* ------------------------------------------------------- chunk extraction
\* acc.get_chunks on a sequence framed by an outer 'O' at both ends: a chunk
\* of label X opens on a tag introducing X that does not continue an open X
\* chunk and closes when the next tag is not I-X.  A chunk is
\* <<label, start, end>> with 0-based token positions.
RECURSIVE ChunksFrom(_, _, _)
ChunksFrom(labels, k, open) ==
    IF k > Len(labels) - 1 THEN <<>>
    ELSE LET cur == labels[k]
             prev == labels[k - 1]
             next == labels[k + 1]
             starts == BioOf(cur) = "B" \/ Outside(prev) \/ TypeOf(prev) # TypeOf(cur)
             s == IF starts \/ open = 0 THEN k ELSE open
             ends == ~(BioOf(next) = "I" /\ TypeOf(next) = TypeOf(cur))
         IN  IF Outside(cur) THEN ChunksFrom(labels, k + 1, 0)
             ELSE IF ends THEN <<(<<TypeOf(cur), s - 2, k - 2>>)>> \o ChunksFrom(labels, k + 1, 0)
             ELSE ChunksFrom(labels, k + 1, s)

get_chunks(labels) == ChunksFrom(labels, 2, 0)

\* --------------------------------------------------------- decode: scoring
\* [idx_to_tag[tag] for tag in pred_line][:length]
PredSeq(pred_line, length) == Slice([k \in DOMAIN pred_line |-> TagOf(pred_line[k])], 0, length)

\* [idx_to_tag[tag] if type(tag) == int else tag for tag in raw_tags[idx]]
LabSeq(raw) == [k \in DOMAIN raw |-> IF raw[k].isint THEN TagOf(raw[k].id) ELSE raw[k].s]

\* for x in xs: if x in ys: n += 1
RECURSIVE CountIn(_, _)
CountIn(xs, ys) ==
    IF Len(xs) = 0 THEN 0
    ELSE (IF xs[1] \in Range(ys) THEN 1 ELSE 0) + CountIn(Tail(xs), ys)

\* for x in xs: if x not in ys: n += 1
RECURSIVE CountNotIn(_, _)
CountNotIn(xs, ys) ==
    IF Len(xs) = 0 THEN 0
    ELSE (IF xs[1] \notin Range(ys) THEN 1 ELSE 0) + CountNotIn(Tail(xs), ys)

\* the increments of (TP, FP, FN) made by the two loops over the chunks
SlotCountsSpanOnly(pred_chunks, label_chunks) ==
    LET span(cs) == [k \in DOMAIN cs |-> <<cs[k][2], cs[k][3]>>]
    IN  [TP |-> CountIn(span(pred_chunks), span(label_chunks)),
         FP |-> CountNotIn(span(pred_chunks), span(label_chunks)),
         FN |-> CountNotIn(span(label_chunks), span(pred_chunks))]

SlotCounts(pred_chunks, label_chunks) ==
    [TP |-> CountIn(pred_chunks, label_chunks),
     FP |-> CountNotIn(pred_chunks, label_chunks),
     FN |-> CountNotIn(label_chunks, pred_chunks)]

\* probabilities are carried in percent; the threshold 0.5 is 50
Threshold == 50

\* [idx_to_class[i] for i, p in enumerate(snt_probs[idx]) if p > 0.5]
RECURSIVE PredClassesFrom(_, _)
PredClassesFrom(probs, k) ==
    IF k > Len(probs) THEN <<>>
    ELSE (IF probs[k] > Threshold THEN <<ClassOf(k - 1)>> ELSE <<>>) \o PredClassesFrom(probs, k + 1)

RECURSIVE PredClassesAtLeastFrom(_, _)
PredClassesAtLeastFrom(probs, k) ==
    IF k > Len(probs) THEN <<>>
    ELSE (IF probs[k] >= Threshold THEN <<ClassOf(k - 1)>> ELSE <<>>) \o PredClassesAtLeastFrom(probs, k + 1)

PredClassesAtLeast(probs) == PredClassesAtLeastFrom(probs, 1)

PredClasses(probs) == PredClassesFrom(probs, 1)

\* [idx_to_class[i] for i in raw_classes[idx]]
GoldClassesMulti(raw) == [k \in DOMAIN raw |-> ClassOf(raw[k])]

\* the increments of (TP2, FP2, FN2) in multi-label mode
MultiCounts(pred_classes, gold_classes) ==
    [TP |-> CountIn(pred_classes, gold_classes),
     FP |-> CountNotIn(pred_classes, gold_classes),
     FN |-> CountNotIn(gold_classes, pred_classes)]

\* single-label mode: {idx_to_class[raw]} for an int, set(raw) otherwise
GoldClassesSingle(raw) == IF raw.isint THEN {ClassOf(raw.id)} ELSE raw.names

\* the increments of (TP2, FP2, FN2) in single-label mode
SingleCountsNoMiss(pred_class, gold_classes) ==
    IF pred_class \in gold_classes THEN [TP |-> 1, FP |-> 0, FN |-> 0]
    ELSE [TP |-> 0, FP |-> 1, FN |-> 0]

SingleCounts(pred_class, gold_classes) ==
    IF pred_class \in gold_classes THEN [TP |-> 1, FP |-> 0, FN |-> 0]
    ELSE [TP |-> 0, FP |-> 1, FN |-> 1]

\* --------------------------------------------------------- decode: metrics
\* p, r, f of lines 389-397; a division by zero shows as ZeroDivision
MetricsUnguarded(tp, fp, fn) ==
    [p |-> Div(100 * tp, tp + fp), r |-> Div(100 * tp, tp + fn),
     f |-> Div(100 * 2 * tp, 2 * tp + fn + fp)]

Metrics(tp, fp, fn) ==
    IF tp = 0 THEN [p |-> Zero, r |-> Zero, f |-> Zero]
    ELSE [p |-> Div(100 * tp, tp + fp), r |-> Div(100 * tp, tp + fn),
          f |-> Div(100 * 2 * tp, 2 * tp + fn + fp)]


\* ----------------------------------------------------------------- corpora
\* One example of a corpus file: word ids, raw gold tags, the gold intent as
\* stored in single-label and in multi-label mode, the sentence-bank id of
\* the utterance and its line number in the file.
P1 == [words |-> <<2, 3, 4>>, raw_tags |-> <<RawId(2), RawId(3), RawId(1)>>,
       cls_single |-> ClsId(0), cls_multi |-> <<0>>, sen |-> 10, line_num |-> 1]
P2 == [words |-> <<4>>, raw_tags |-> <<RawId(4)>>,
       cls_single |-> ClsNames({"A", "B"}), cls_multi |-> <<0, 1>>, sen |-> 11, line_num |-> 2]
P3 == [words |-> <<3, 4>>, raw_tags |-> <<RawId(1), RawStr("B-a")>>,
       cls_single |-> ClsId(2), cls_multi |-> <<2>>, sen |-> 12, line_num |-> 3]

Pool == <<P1, P2, P3>>

\* n consecutive examples of the pool, starting at its r-th
Split(r, n) == [k \in 1 .. n |-> Pool[((r + k - 2) % Len(Pool)) + 1]]

\* a tag vocabulary file that lacks the padding tag
TagsWithoutPad == <<"O", "B-a", "I-a", "B-b">>

\* the corpus files of a full run
ProgramCorpus == [train |-> Split(1, NEval), valid |-> Split(2, NEval), test |-> Split(3, NEval),
                  tag_vocab |-> idx_to_tag]

\* the same files, the tag vocabulary with or without the padding tag
ProgramCorpora == {ProgramCorpus, [ProgramCorpus EXCEPT !.tag_vocab = TagsWithoutPad]}

\* the corpus files behind a stand-alone decode pass
DecodeCorpora == {[train |-> Split(1, NTrain), valid |-> Split(r + 1, NDecode), test |-> Split(r, NDecode),
                   tag_vocab |-> idx_to_tag] :
                    r \in 1 .. Len(Pool)}

\* --------------------------------------------------------- network outputs
\* rows the tagger can put into tag_path / the argmax of tag_scores (tag ids,
\* as wide as the longest sentence of the pool)
TagRows == <<<<2, 3, 4>>, <<1, 2, 0>>, <<4, 3, 2>>>>

\* rows of class_scores in multi-label mode, in percent
ProbRows == <<<<50, 50, 50>>, <<25, 75, 75>>, <<75, 50, 25>>>>

\* what one forward pass can hand to the per-example loop: a tag row, the
\* class_scores row of multi-label mode and the top class of single-label mode
ForwardPasses == {[row |-> TagRows[k], probs |-> ProbRows[k], top |-> k - 1] : k \in DOMAIN TagRows}

\* ------------------------------------------------------------ command line
TaskStAccepted == {"slot_tagger_sen_level", "slot_tagger_with_crf_sen_level"}
TaskScAccepted == {"none", "2tails", "maxPooling", "hiddenCNN", "hiddenAttention"}
ScTypeAccepted == {"single_cls_CE", "multi_cls_BCE"}

TaskStValues == TaskStAccepted \cup {"unknown"}
TaskScValues == {"none", "hiddenAttention", "unknown"}
ScTypeValues == ScTypeAccepted \cup {"unknown"}
StWeightValues == {Frac(0, 1), Frac(1, 4), Frac(1, 1), Frac(3, 2)}

\* opt after parse_args: out_path / read_model are TRUE when the option is
\* given (bool(...) of the string); task_sc "None" stands for python None
CommandLinesOver(batchSizes, test_batchSizes) ==
    [testing : BOOLEAN, out_path : BOOLEAN, read_model : BOOLEAN,
     task_st : TaskStValues, task_sc : TaskScValues, sc_type : ScTypeValues,
     st_weight : StWeightValues, batchSize : batchSizes, test_batchSize : test_batchSizes,
     max_epoch : {MaxEpoch}, multiClass : {FALSE}, crf : {FALSE}]

\* the command lines of a full run: the smallest and the largest batch size
CommandLines == CommandLinesOver({1, MaxBatch}, {0, 1, MaxBatch})

\* the command lines of a pass taken alone: every batch size
AllBatchCommandLines == CommandLinesOver(1 .. MaxBatch, 0 .. MaxBatch)

\* names bound by the training-mode data loading (lines 165-196)
LoadedNames == {"tag_to_idx", "idx_to_tag", "class_to_idx", "idx_to_class", "word_to_idx", "idx_to_word",
                "ext_sen_emb", "ext_sen_size", "sen2idx", "train_feats", "valid_feats", "test_feats",
                "train_sen_feats", "valid_sen_feats", "test_sen_feats"}

\* files read by the data loading
DataFiles == {"vocab.slot", "vocab.intent", "train", "valid", "test", "sen2vec", "sen2idx"}

NoResult == [p |-> Zero, r |-> Zero, f |-> Zero, cp |-> Zero, cr |-> Zero, cf |-> Zero]
NoBatch == [ix |-> <<>>, sens |-> <<>>, lens |-> <<>>, max_len |-> 0, rows |-> 0, width |-> 0]
NoPred == [pred_line |-> <<>>, probs |-> <<>>, argmax |-> -1]
NoLoss == [n |-> 0, d |-> 0]

\* values a summed loss of one minibatch can take
LossValues == {Frac(1, 2), Frac(3, 1)}

VARIABLES
    opt,              \* the parsed command line, normalised by lines 73-91
    pc,               \* position of the script
    error,            \* the exception that stopped the run, "" if none
    defined,          \* module-level names bound so far
    files_read,       \* input files read so far
    files_written,    \* files created so far
    loads,            \* number of times saved parameters were loaded
    corpus,           \* contents of the corpus files
    train_data_index, \* the training index permutation
    i,                \* epoch
    j,                \* offset of the training minibatch loop
    shuffles,         \* shuffles done so far
    visited,          \* examples visited by the running loop, in order
    split,            \* split the running decode pass is given
    data_index,       \* decode: np.arange(len(data_feats))
    dj,               \* decode: offset of the batch loop
    mb,               \* decode: the current minibatch
    idx,              \* decode: position in the per-example loop
    pred,             \* decode: network output for the example just scored
    TP, FP, FN,       \* decode: slot counters
    TP2, FP2, FN2,    \* decode: intent counters
    out_lines,        \* decode: lines written to the open output file
    res_val, res_te,  \* results of the validation / test pass of this epoch
    best_f1,          \* best combined validation score so far
    best_iter,        \* best_result['iter']
    val_scores,       \* combined validation score of every finished epoch
    saved,            \* epochs in which the checkpoint was saved
    tag_loss,         \* training: tag_loss of the current minibatch
    class_loss,       \* training: class_loss of the current minibatch
    total_loss,       \* training: the loss handed to backward()
    grad              \* minibatches (epoch, offset) whose backward() is summed in the parameters' .grad

cfg_vars == <<opt, corpus>>
run_vars == <<defined, files_read, files_written, loads>>
train_vars == <<train_data_index, i, j, shuffles>>
frame_vars == <<split, data_index, dj, mb, idx, pred, TP, FP, FN, TP2, FP2, FN2, out_lines>>
best_vars == <<res_val, res_te, best_f1, best_iter, val_scores, saved>>
step_vars == <<tag_loss, class_loss, total_loss, grad>>
vars == <<opt, pc, error, defined, files_read, files_written, loads, corpus, train_data_index, i, j,
          shuffles, visited, split, data_index, dj, mb, idx, pred, TP, FP, FN, TP2, FP2, FN2,
          out_lines, res_val, res_te, best_f1, best_iter, val_scores, saved,
          tag_loss, class_loss, total_loss, grad>>

\* state of the interpreter before the first statement
Blank ==
    /\ error = ""
    /\ defined = {}
    /\ files_read = {}
    /\ files_written = {}
    /\ loads = 0
    /\ train_data_index = <<>>
    /\ i = 0
    /\ j = 0
    /\ shuffles = 0
    /\ visited = <<>>
    /\ split = ""
    /\ data_index = <<>>
    /\ dj = 0
    /\ mb = NoBatch
    /\ idx = 0
    /\ pred = NoPred
    /\ TP = 0 /\ FP = 0 /\ FN = 0
    /\ TP2 = 0 /\ FP2 = 0 /\ FN2 = 0
    /\ out_lines = <<>>
    /\ res_val = NoResult
    /\ res_te = NoResult
    /\ best_f1 = FlZero
    /\ best_iter = -1
    /\ val_scores = <<>>
    /\ saved = <<>>
    /\ tag_loss = NoLoss /\ class_loss = NoLoss /\ total_loss = NoLoss
    /\ grad = <<>>

Init ==
    /\ opt \in CommandLines
    /\ corpus \in ProgramCorpora
    /\ pc = "config"
    /\ Blank

\* a statement that raises: the run stops there
Raise(e) ==
    /\ pc' = "crashed"
    /\ error' = e

\* ----------------------------------------------------- configuration checks
\* the asserts of lines 71, 76-78 and 89, the last one without its lower bound
ConfigAcceptedNoLowerBound(o) ==
    /\ o.testing = o.out_path
    /\ o.out_path = o.read_model
    /\ o.task_st \in TaskStAccepted
    /\ o.task_sc \in TaskScAccepted
    /\ o.sc_type \in ScTypeAccepted
    /\ ~FracLess(One, o.st_weight)

\* the asserts of lines 71, 76-78 and 89
ConfigAccepted(o) ==
    /\ o.testing = o.out_path
    /\ o.out_path = o.read_model
    /\ o.task_st \in TaskStAccepted
    /\ o.task_sc \in TaskScAccepted
    /\ o.sc_type \in ScTypeAccepted
    /\ FracLess(Zero, o.st_weight)
    /\ ~FracLess(One, o.st_weight)

\* lines 73-74
DefaultTestBatchSize(o) ==
    [o EXCEPT !.test_batchSize = IF o.test_batchSize = 0 THEN o.batchSize ELSE o.test_batchSize]

\* lines 79-87
SetModeFlags(o) ==
    [o EXCEPT !.multiClass = (o.sc_type = "multi_cls_BCE"),
              !.crf = (o.task_st = "slot_tagger_with_crf_sen_level")]

\* lines 90-91
DropIntentTask(o) ==
    [o EXCEPT !.task_sc = IF FracEq(o.st_weight, One) \/ o.task_sc = "none" THEN "None" ELSE o.task_sc]

\* the normalisations of lines 73-74, 79-87 and 90-91
Normalise(o) == DropIntentTask(SetModeFlags(DefaultTestBatchSize(o)))

\* opt when an assert stops the script: the normalisations that precede the
\* failing assert have been applied (line 71 precedes all of them, lines
\* 76-78 follow lines 73-74, line 89 follows lines 79-87)
RejectedAt(o) ==
    IF ~(o.testing = o.out_path /\ o.out_path = o.read_model) THEN o
    ELSE IF ~(o.task_st \in TaskStAccepted /\ o.task_sc \in TaskScAccepted /\ o.sc_type \in ScTypeAccepted)
    THEN DefaultTestBatchSize(o)
    ELSE SetModeFlags(DefaultTestBatchSize(o))

\* lines 71-91, an assert fails
ConfigRejected ==
    /\ pc = "config"
    /\ ~ConfigAccepted(opt)
    /\ opt' = RejectedAt(opt)
    /\ pc' = "aborted"
    /\ error' = "AssertionError"
    /\ UNCHANGED <<corpus, run_vars, train_vars, step_vars, visited, frame_vars, best_vars>>

\* lines 71-91, every assert passes
ConfigChecked ==
    /\ pc = "config"
    /\ ConfigAccepted(opt)
    /\ opt' = Normalise(opt)
    /\ pc' = "paths"
    /\ UNCHANGED <<corpus, error, run_vars, train_vars, step_vars, visited, frame_vars, best_vars>>

\* lines 93-152: experiment directory, log file, device, seeds
SetupExperiment ==
    /\ pc = "paths"
    /\ files_written' = files_written \cup {IF opt.testing THEN "log_test.txt" ELSE "log_train.txt"}
    /\ pc' = "load"
    /\ UNCHANGED <<cfg_vars, error, defined, files_read, loads, train_vars, step_vars, visited, frame_vars, best_vars>>

\* lines 162-196: vocabularies, sentence embeddings, corpora (training mode only)
LoadData ==
    /\ pc = "load"
    /\ IF ~opt.testing
       THEN /\ files_read' = files_read \cup DataFiles
            /\ defined' = defined \cup LoadedNames
       ELSE UNCHANGED <<files_read, defined>>
    /\ pc' = "tagger"
    /\ UNCHANGED <<cfg_vars, error, files_written, loads, train_vars, step_vars, visited, frame_vars, best_vars>>

\* lines 198-204: the tagger is built for the CRF task only
BuildTagger ==
    /\ pc = "tagger"
    /\ IF opt.task_st = "slot_tagger_with_crf_sen_level"
       THEN IF {"ext_sen_size", "tag_to_idx"} \subseteq defined
            THEN /\ defined' = defined \cup {"model_tag"}
                 /\ pc' = "classifier"
                 /\ UNCHANGED error
            ELSE /\ Raise("NameError")
                 /\ UNCHANGED defined
       ELSE /\ pc' = "classifier"
            /\ UNCHANGED <<defined, error>>
    /\ UNCHANGED <<cfg_vars, files_read, files_written, loads, train_vars, step_vars, visited, frame_vars, best_vars>>

\* lines 207-234: the intent classifier and its encoder_info_filter
BuildClassifier ==
    /\ pc = "classifier"
    /\ IF opt.task_sc \in {"2tails", "maxPooling", "hiddenCNN", "hiddenAttention"}
       THEN IF "class_to_idx" \in defined
            THEN /\ defined' = defined \cup {"model_class", "encoder_info_filter"}
                 /\ pc' = "device"
                 /\ UNCHANGED error
            ELSE /\ Raise("NameError")
                 /\ UNCHANGED defined
       ELSE /\ pc' = "device"
            /\ UNCHANGED <<defined, error>>
    /\ UNCHANGED <<cfg_vars, files_read, files_written, loads, train_vars, step_vars, visited, frame_vars, best_vars>>

\* lines 236-238: model_tag.to(device), model_class.to(device)
ToDevice ==
    /\ pc = "device"
    /\ IF "model_tag" \in defined /\ (opt.task_sc # "None" => "model_class" \in defined)
       THEN /\ pc' = "init"
            /\ UNCHANGED error
       ELSE Raise("NameError")
    /\ UNCHANGED <<cfg_vars, run_vars, train_vars, step_vars, visited, frame_vars, best_vars>>

\* lines 240-250: weight initialisation and pretrained sentence embeddings
\* (training mode only); no saved parameters are read here or anywhere else
InitWeights ==
    /\ pc = "init"
    /\ pc' = "loss"
    /\ UNCHANGED <<cfg_vars, error, run_vars, train_vars, step_vars, visited, frame_vars, best_vars>>

\* line 166: tag_to_idx as read from the tag vocabulary file (label -> id)
tag_to_idx == [t \in Range(corpus.tag_vocab) |-> (CHOOSE k \in DOMAIN corpus.tag_vocab : corpus.tag_vocab[k] = t) - 1]

\* lines 252-260 with the padding tag's weight left at one when the tag is missing
BuildLossSkippingPad ==
    /\ pc = "loss"
    /\ IF "tag_to_idx" \in defined
       THEN /\ defined' = defined \cup ({"weight_mask", "tag_loss_function"} \cup
                                        (IF opt.task_sc # "None" THEN {"class_loss_function"} ELSE {}))
            /\ pc' = "optimizer"
            /\ UNCHANGED error
       ELSE /\ Raise("NameError")
            /\ UNCHANGED defined
    /\ UNCHANGED <<cfg_vars, files_read, files_written, loads, train_vars, step_vars, visited, frame_vars, best_vars>>

\* lines 252-260: weight mask and loss functions; tag_to_idx['<pad>'] at
\* line 253 raises KeyError when the vocabulary has no '<pad>'
BuildLoss ==
    /\ pc = "loss"
    /\ IF "tag_to_idx" \notin defined
       THEN /\ Raise("NameError")
            /\ UNCHANGED defined
       ELSE IF "<pad>" \notin DOMAIN tag_to_idx
       THEN /\ Raise("KeyError")
            /\ defined' = defined \cup {"weight_mask"}
       ELSE /\ defined' = defined \cup ({"weight_mask", "tag_loss_function"} \cup
                                        (IF opt.task_sc # "None" THEN {"class_loss_function"} ELSE {}))
            /\ pc' = "optimizer"
            /\ UNCHANGED error
    /\ UNCHANGED <<cfg_vars, files_read, files_written, loads, train_vars, step_vars, visited, frame_vars, best_vars>>

\* lines 262-275: parameter list and optimizer
BuildOptimizer ==
    /\ pc = "optimizer"
    /\ defined' = defined \cup {"params", "optimizer"}
    /\ pc' = "mode"
    /\ UNCHANGED <<cfg_vars, error, files_read, files_written, loads, train_vars, step_vars, visited, frame_vars, best_vars>>


\* ------------------------------------------------------------ minibatches
DataOf(sp) == IF sp = "valid" THEN corpus.valid ELSE corpus.test

\* data_reader.get_minibatch_with_class: the examples at
\* data_index[index : index + batchSize], with their lengths
get_minibatch_with_class(data, index_array, index, batchSize) ==
    LET ix == Slice(index_array, index, index + batchSize)
        lens == [k \in DOMAIN ix |-> Len(data[ix[k] + 1].words)]
    IN  [ix |-> ix, lens |-> lens]

\* data_reader.get_sen_minibatch: the sentence features at
\* data_index[index : index + batchSize]
get_sen_minibatch(index_array, index, batchSize) == Slice(index_array, index, index + batchSize)

\* max(lens)
RECURSIVE MaxOf(_)
MaxOf(s) == IF Len(s) = 0 THEN 0
            ELSE LET m == MaxOf(Tail(s)) IN IF s[1] > m THEN s[1] ELSE m

\* a row of the padded inputs tensor
PaddedWords(words, width) == [k \in 1 .. width |-> IF k <= Len(words) THEN words[k] ELSE 0]

\* np.random.shuffle(a): any rearrangement of a
ShuffleOutcomes(a) == {b \in [DOMAIN a -> Range(a)] : Range(b) = Range(a)}

\* list(a_set): some ordering of the set
Orderings(S) == {q \in [1 .. Cardinality(S) -> S] : Range(q) = S}

\* --------------------------------------------------------------- training
\* lines 402-406, and the end of the script in evaluation mode
StartTraining ==
    /\ pc = "mode"
    /\ IF ~opt.testing
       THEN /\ train_data_index' = Arange(Len(corpus.train))
            /\ defined' = defined \cup {"train_data_index", "best_f1", "best_result"}
            /\ best_f1' = FlFromFrac(Frac(-1, 1))
            /\ pc' = IF opt.max_epoch > 0 THEN "epoch" ELSE "summary"
       ELSE /\ pc' = "done"
            /\ UNCHANGED <<train_data_index, defined, best_f1>>
    /\ UNCHANGED <<cfg_vars, error, files_read, files_written, loads, i, j, shuffles, visited, frame_vars,
                   res_val, res_te, best_iter, val_scores, saved, step_vars>>

\* lines 408-419: shuffle, switch the models to training mode
EpochStart ==
    /\ pc = "epoch"
    /\ train_data_index' \in ShuffleOutcomes(train_data_index)
    /\ shuffles' = shuffles + 1
    /\ j' = 0
    /\ visited' = <<>>
    /\ pc' = IF Len(train_data_index) > 0 THEN "train" ELSE "eval"
    /\ UNCHANGED <<cfg_vars, error, run_vars, i, frame_vars, best_vars, step_vars>>

\* lines 438-445 with the two losses added without their weights
TotalLossUnweighted(tl, cl) ==
    IF opt.task_sc # "None" THEN FracAdd(tl, cl) ELSE tl

\* lines 438-445: total_loss
TotalLoss(tl, cl) ==
    IF opt.task_sc # "None"
    THEN FracAdd(FracMul(opt.st_weight, tl), FracMul(FracSub(One, opt.st_weight), cl))
    ELSE tl

\* lines 420-457: one minibatch of the training loop: the losses, backward()
\* (which adds to the parameters' .grad; nothing in the loop clears it) and
\* optimizer.step() (which applies .grad)
TrainBatch ==
    /\ pc = "train"
    /\ LET batch == get_minibatch_with_class(corpus.train, train_data_index, j, opt.batchSize)
       IN  visited' = visited \o batch.ix
    /\ \E tl \in LossValues :
       \E cl \in (IF opt.task_sc # "None" THEN LossValues ELSE {NoLoss}) :
           /\ tag_loss' = tl
           /\ class_loss' = cl
           /\ total_loss' = TotalLoss(tl, cl)
    /\ grad' = Append(grad, <<i, j>>)
    /\ j' = j + opt.batchSize
    /\ pc' = IF j + opt.batchSize < Len(train_data_index) THEN "train" ELSE "eval"
    /\ UNCHANGED <<cfg_vars, error, run_vars, train_data_index, i, shuffles, frame_vars, best_vars>>

\* lines 459-470: end of the minibatch loop, call decode on the validation
\* split; the losses of the last minibatch are not read again
EpochEval ==
    /\ pc = "eval"
    /\ split' = "valid"
    /\ pc' = "decode_open"
    /\ tag_loss' = NoLoss /\ class_loss' = NoLoss /\ total_loss' = NoLoss
    /\ UNCHANGED <<cfg_vars, error, run_vars, train_vars, grad, visited, data_index, dj, mb, idx, pred,
                   TP, FP, FN, TP2, FP2, FN2, out_lines, best_vars>>

\* ------------------------------------------------------------------ decode
\* lines 277-282: index array, counters, output file
DecodeOpen ==
    /\ pc = "decode_open"
    /\ data_index' = Arange(Len(DataOf(split)))
    /\ TP' = 0 /\ FP' = 0 /\ FN' = 0
    /\ TP2' = 0 /\ FP2' = 0 /\ FN2' = 0
    /\ out_lines' = <<>>
    /\ files_written' = files_written \cup {split \o ".iter" \o ToString(i)}
    /\ dj' = 0
    /\ visited' = <<>>
    /\ pc' = IF Len(DataOf(split)) > 0 THEN "decode_batch" ELSE "decode_return"
    /\ UNCHANGED <<cfg_vars, error, defined, files_read, loads, train_vars, step_vars, split, mb, idx, pred, best_vars>>

\* lines 311-314: the shapes top_pred_slots can have. The tagger is fed
\* input_sens for the features and lens and masks for the lengths; it returns
\* one row per sentence of input_sens, as wide as the longest of them, or one
\* row per row of masks, max(lens) wide. The two are the same shape when the
\* sentence and the token minibatch hold the same examples.
TopPredShapes(data, batch, sens) ==
    {[rows |-> Len(sens), width |-> MaxOf([k \in DOMAIN sens |-> Len(data[sens[k] + 1].words)])],
     [rows |-> Len(batch.lens), width |-> MaxOf(batch.lens)]}

\* lines 283-331 with the counters initialised inside the batch loop
DecodeBatchResetting ==
    /\ pc = "decode_batch"
    /\ IF opt.testing /\ "train_data_index" \notin defined
       THEN /\ Raise("NameError")
            /\ UNCHANGED <<mb, idx>>
       ELSE LET batch == get_minibatch_with_class(DataOf(split), data_index, dj, opt.test_batchSize)
                sens == IF opt.testing
                        THEN get_sen_minibatch(train_data_index, dj, opt.batchSize)
                        ELSE get_sen_minibatch(data_index, dj, opt.batchSize)
            IN  \/ /\ \E shape \in TopPredShapes(DataOf(split), batch, sens) :
                          mb' = [ix |-> batch.ix, sens |-> sens, lens |-> batch.lens,
                                 max_len |-> MaxOf(batch.lens), rows |-> shape.rows, width |-> shape.width]
                   /\ idx' = 0
                   /\ pc' = "decode_example"
                   /\ UNCHANGED error
                \/ /\ Len(sens) # Len(batch.lens)
                   /\ Raise("RuntimeError")
                   /\ UNCHANGED <<mb, idx>>
    /\ TP' = 0 /\ FP' = 0 /\ FN' = 0
    /\ TP2' = 0 /\ FP2' = 0 /\ FN2' = 0
    /\ UNCHANGED <<cfg_vars, run_vars, train_vars, step_vars, visited, split, data_index, dj, pred,
                   out_lines, best_vars>>

\* lines 283-331: one minibatch of the decode loop and its forward pass.
\* When batchSize and test_batchSize differ, the tagger and the losses get
\* input_sens with another number of sentences than lens, masks, tags and
\* classes have entries (lines 298 and 304); their code is not part of the
\* script, so the batch either fails inside them or comes back in one of the
\* shapes of TopPredShapes.
DecodeBatch ==
    /\ pc = "decode_batch"
    /\ IF opt.testing /\ "train_data_index" \notin defined
       THEN /\ Raise("NameError")
            /\ UNCHANGED <<mb, idx>>
       ELSE LET batch == get_minibatch_with_class(DataOf(split), data_index, dj, opt.test_batchSize)
                sens == IF opt.testing
                        THEN get_sen_minibatch(train_data_index, dj, opt.batchSize)
                        ELSE get_sen_minibatch(data_index, dj, opt.batchSize)
            IN  \/ /\ \E shape \in TopPredShapes(DataOf(split), batch, sens) :
                          mb' = [ix |-> batch.ix, sens |-> sens, lens |-> batch.lens,
                                 max_len |-> MaxOf(batch.lens), rows |-> shape.rows, width |-> shape.width]
                   /\ idx' = 0
                   /\ pc' = "decode_example"
                   /\ UNCHANGED error
                \/ /\ Len(sens) # Len(batch.lens)
                   /\ Raise("RuntimeError")
                   /\ UNCHANGED <<mb, idx>>
    /\ UNCHANGED <<cfg_vars, run_vars, train_vars, step_vars, visited, split, data_index, dj, pred,
                   TP, FP, FN, TP2, FP2, FN2, out_lines, best_vars>>

\* what the intent classifier hands to the per-example loop
IntentOutputs(fw) ==
    IF opt.task_sc = "None" THEN [probs |-> <<>>, argmax |-> -1]
    ELSE IF opt.multiClass THEN [probs |-> fw.probs, argmax |-> -1]
    ELSE [probs |-> <<>>, argmax |-> fw.top]

\* lines 352-381: the intent counters' increments and the two intent strings,
\* the gold set of single-label mode listed in the order gold_order
IntentScore(ex, out, gold_order) ==
    IF opt.task_sc = "None"
    THEN [c |-> [TP |-> 0, FP |-> 0, FN |-> 0], gold_class_str |-> "", pred_class_str |-> ""]
    ELSE IF opt.multiClass
    THEN LET pred_classes == PredClasses(out.probs)
             gold_classes == GoldClassesMulti(ex.cls_multi)
         IN  [c |-> MultiCounts(pred_classes, gold_classes),
              gold_class_str |-> JoinStr(gold_classes, ";"),
              pred_class_str |-> JoinStr(pred_classes, ";")]
    ELSE LET pred_class == ClassOf(out.argmax)
             gold_classes == GoldClassesSingle(ex.cls_single)
         IN  [c |-> SingleCounts(pred_class, gold_classes),
              gold_class_str |-> JoinStr(gold_order, ";"),
              pred_class_str |-> pred_class]

\* lines 348-350
WordTagLine(ex, length, width, pred_seq) ==
    LET inputs == PaddedWords(ex.words, width)
        input_line == Slice([k \in DOMAIN inputs |-> WordOf(inputs[k])], 0, length)
        lab_seq == LabSeq(ex.raw_tags)
    IN  [k \in DOMAIN input_line |-> input_line[k] \o ":" \o lab_seq[k] \o ":" \o pred_seq[k]]

\* lines 383-387: the pieces of the written line
OutputLine(ex, word_tag_line, gold_class_str, pred_class_str) ==
    [prefix |-> IF opt.testing THEN <<ToString(ex.line_num), " : ">> ELSE <<>>,
     word_tag_line |-> word_tag_line,
     gold_class_str |-> gold_class_str,
     pred_class_str |-> pred_class_str]

\* line 283: the step of range(0, len(data_index), opt.test_batchSize)
DecodeStep == opt.test_batchSize

\* lines 333-387: one iteration of the loop over the rows of top_pred_slots;
\* lens[idx] (line 334) fails on a row beyond the token minibatch. A row is
\* never shorter than its example: it is max(lens) wide, or the two
\* minibatches start at the same offset of the same index array and row idx
\* belongs to example idx.
DecodeExample ==
    /\ pc = "decode_example"
    /\ IF idx + 1 > Len(mb.lens)
       THEN /\ Raise("IndexError")
            /\ UNCHANGED <<TP, FP, FN, TP2, FP2, FN2, pred, out_lines, visited, idx, dj>>
       ELSE LET data == DataOf(split)
                ex == data[mb.ix[idx + 1] + 1]
                length == mb.lens[idx + 1]
            IN  /\ \E fw \in ForwardPasses :
                   \E gold_order \in (IF opt.task_sc # "None" /\ ~opt.multiClass
                                      THEN Orderings(GoldClassesSingle(ex.cls_single)) ELSE {<<>>}) :
                       LET out == IntentOutputs(fw)
                           pred_line == SubSeq(fw.row, 1, mb.width)
                           pred_seq == PredSeq(pred_line, length)
                           lab_seq == LabSeq(ex.raw_tags)
                           pred_chunks == get_chunks(<<"O">> \o pred_seq \o <<"O">>)
                           label_chunks == get_chunks(<<"O">> \o lab_seq \o <<"O">>)
                           c == SlotCounts(pred_chunks, label_chunks)
                           c2 == IntentScore(ex, out, gold_order)
                           word_tag_line == WordTagLine(ex, length, mb.max_len, pred_seq)
                       IN  /\ TP' = TP + c.TP
                           /\ FP' = FP + c.FP
                           /\ FN' = FN + c.FN
                           /\ TP2' = TP2 + c2.c.TP
                           /\ FP2' = FP2 + c2.c.FP
                           /\ FN2' = FN2 + c2.c.FN
                           /\ pred' = [pred_line |-> pred_line, probs |-> out.probs, argmax |-> out.argmax]
                           /\ out_lines' = Append(out_lines,
                                                  OutputLine(ex, word_tag_line, c2.gold_class_str,
                                                             c2.pred_class_str))
                           /\ visited' = Append(visited, mb.ix[idx + 1])
                /\ idx' = idx + 1
                /\ UNCHANGED error
                /\ IF idx + 1 < mb.rows
                   THEN /\ pc' = "decode_example"
                        /\ dj' = dj
                   ELSE /\ dj' = dj + DecodeStep
                        /\ pc' = IF dj + DecodeStep < Len(data_index) THEN "decode_batch" ELSE "decode_return"
    /\ UNCHANGED <<cfg_vars, run_vars, train_vars, step_vars, split, data_index, mb, best_vars>>

\* the six values decode returns besides the mean losses (lines 389-400)
DecodeResult ==
    LET m == Metrics(TP, FP, FN)
        m2 == Metrics(TP2, FP2, FN2)
    IN  [p |-> m.p, r |-> m.r, f |-> m.f, cp |-> m2.p, cr |-> m2.r, cf |-> m2.f]

Failed(res) == \E k \in DOMAIN res : res[k] = ZeroDivision

\* lines 389-400 and the assignment of the result at line 470 or 479; the
\* locals of the call are dropped, the test pass follows the validation pass
DecodeReturn ==
    /\ pc = "decode_return"
    /\ IF Failed(DecodeResult)
       THEN /\ Raise("ZeroDivisionError")
            /\ UNCHANGED <<split, res_val, res_te>>
       ELSE /\ UNCHANGED error
            /\ IF split = "valid"
               THEN /\ res_val' = DecodeResult
                    /\ res_te' = res_te
                    /\ split' = "test"
                    /\ pc' = "decode_open"
               ELSE /\ res_te' = DecodeResult
                    /\ res_val' = res_val
                    /\ split' = split
                    /\ pc' = "checkpoint"
    /\ data_index' = <<>>
    /\ dj' = 0
    /\ mb' = NoBatch
    /\ idx' = 0
    /\ pred' = NoPred
    /\ TP' = 0 /\ FP' = 0 /\ FN' = 0
    /\ TP2' = 0 /\ FP2' = 0 /\ FN2' = 0
    /\ out_lines' = <<>>
    /\ visited' = <<>>
    /\ UNCHANGED <<cfg_vars, run_vars, train_vars, step_vars, best_f1, best_iter, val_scores, saved>>

\* ------------------------------------------------------------- checkpoint
\* lines 487-490: val_f1_score as the double the script computes; f_val and
\* cf_val are the doubles nearest to the quotients of lines 389-397, and the
\* two products, 1 - st_weight and the sum each round
ValF1Score(res) ==
    IF opt.task_sc # "None"
    THEN FlAdd(FlMul(FlFromFrac(opt.st_weight), FlFromFrac(res.f)),
               FlMul(FlSub(FlFromFrac(One), FlFromFrac(opt.st_weight)), FlFromFrac(res.cf)))
    ELSE FlFromFrac(res.f)

\* line 491
ImprovesOrEquals(best, score) == ~FlLess(score, best)

Improves(best, score) == FlLess(best, score)

\* lines 487-503, then the next epoch or the end of the loop; the results of
\* the two passes are not read again
Checkpoint ==
    /\ pc = "checkpoint"
    /\ LET val_f1_score == ValF1Score(res_val)
       IN  /\ val_scores' = Append(val_scores, val_f1_score)
           /\ IF Improves(best_f1, val_f1_score)
              THEN /\ files_written' = files_written \cup
                          ({"model.tag"} \cup (IF opt.task_sc # "None" THEN {"model.class"} ELSE {}))
                   /\ best_f1' = val_f1_score
                   /\ best_iter' = i
                   /\ saved' = Append(saved, i)
              ELSE UNCHANGED <<files_written, best_f1, best_iter, saved>>
    /\ res_val' = NoResult
    /\ res_te' = NoResult
    /\ i' = i + 1
    /\ pc' = IF i + 1 < opt.max_epoch THEN "epoch" ELSE "summary"
    /\ UNCHANGED <<cfg_vars, error, defined, files_read, loads, train_data_index, j, shuffles, visited,
                   frame_vars, step_vars>>

\* lines 510-514: the BEST RESULT line reads best_result['iter']
Finish ==
    /\ pc = "summary"
    /\ IF best_iter >= 0
       THEN /\ pc' = "done"
            /\ UNCHANGED error
       ELSE Raise("KeyError")
    /\ UNCHANGED <<cfg_vars, run_vars, train_vars, step_vars, visited, frame_vars, best_vars>>

\* ---------------------------------------------------------- specifications
Next ==
    \/ ConfigRejected
    \/ ConfigChecked
    \/ SetupExperiment
    \/ LoadData
    \/ BuildTagger
    \/ BuildClassifier
    \/ ToDevice
    \/ InitWeights
    \/ BuildLoss
    \/ BuildOptimizer
    \/ StartTraining
    \/ EpochStart
    \/ TrainBatch
    \/ EpochEval
    \/ DecodeOpen
    \/ DecodeBatch
    \/ DecodeExample
    \/ DecodeReturn
    \/ Checkpoint
    \/ Finish

Spec == Init /\ [][Next]_vars

\* A full run stopped at the call of decode on the validation split in epoch
\* 0: the command line is accepted, training mode, the CRF tagger is built,
\* the shuffle of epoch 0 left the index array in order.
TrainingNames ==
    LoadedNames \cup {"model_tag", "weight_mask", "tag_loss_function", "params", "optimizer",
                      "train_data_index", "best_f1", "best_result"}

IntentNames == {"model_class", "encoder_info_filter", "class_loss_function"}

DecodeCommandLines ==
    {o \in AllBatchCommandLines :
        /\ ~o.testing /\ ~o.out_path /\ ~o.read_model
        /\ o.task_st = "slot_tagger_with_crf_sen_level"
        /\ \/ o.task_sc = "none" /\ o.sc_type = "single_cls_CE"
           \/ o.task_sc = "hiddenAttention" /\ o.sc_type \in ScTypeAccepted
        /\ o.st_weight = Frac(1, 4)
        /\ o.test_batchSize = o.batchSize}

InitDecode ==
    /\ \E o \in DecodeCommandLines : opt = Normalise(o)
    /\ corpus \in DecodeCorpora
    /\ pc = "decode_open"
    /\ error = ""
    /\ defined = TrainingNames \cup (IF opt.task_sc # "None" THEN IntentNames ELSE {})
    /\ files_read = DataFiles
    /\ files_written = {"log_train.txt"}
    /\ loads = 0
    /\ train_data_index = Arange(NTrain)
    /\ i = 0
    /\ j = opt.batchSize * ((NTrain + opt.batchSize - 1) \div opt.batchSize)
    /\ shuffles = 1
    /\ visited = Arange(NTrain)
    /\ split = "valid"
    /\ data_index = <<>>
    /\ dj = 0
    /\ mb = NoBatch
    /\ idx = 0
    /\ pred = NoPred
    /\ TP = 0 /\ FP = 0 /\ FN = 0
    /\ TP2 = 0 /\ FP2 = 0 /\ FN2 = 0
    /\ out_lines = <<>>
    /\ res_val = NoResult
    /\ res_te = NoResult
    /\ best_f1 = FlFromFrac(Frac(-1, 1))
    /\ best_iter = -1
    /\ val_scores = <<>>
    /\ saved = <<>>
    /\ tag_loss = NoLoss /\ class_loss = NoLoss /\ total_loss = NoLoss
    /\ grad = [k \in 1 .. ((NTrain + opt.batchSize - 1) \div opt.batchSize) |-> <<0, (k - 1) * opt.batchSize>>]

NextDecode ==
    \/ DecodeOpen
    \/ DecodeBatch
    \/ DecodeExample
    \/ DecodeReturn

SpecDecode == InitDecode /\ [][NextDecode]_vars

\* A full run of the slot task alone, taken from the head of epoch 0 (line
\* 408) through all its epochs, for every pair of batch sizes.
EpochCommandLines ==
    {o \in AllBatchCommandLines :
        /\ ~o.testing /\ ~o.out_path /\ ~o.read_model
        /\ o.task_st = "slot_tagger_with_crf_sen_level"
        /\ o.task_sc = "none" /\ o.sc_type = "single_cls_CE"
        /\ o.st_weight = Frac(1, 4)}

InitEpoch ==
    /\ \E o \in EpochCommandLines : opt = Normalise(o)
    /\ corpus \in DecodeCorpora
    /\ pc = "epoch"
    /\ error = ""
    /\ defined = TrainingNames
    /\ files_read = DataFiles
    /\ files_written = {"log_train.txt"}
    /\ loads = 0
    /\ train_data_index = Arange(NTrain)
    /\ i = 0
    /\ j = 0
    /\ shuffles = 0
    /\ visited = <<>>
    /\ split = ""
    /\ data_index = <<>>
    /\ dj = 0
    /\ mb = NoBatch
    /\ idx = 0
    /\ pred = NoPred
    /\ TP = 0 /\ FP = 0 /\ FN = 0
    /\ TP2 = 0 /\ FP2 = 0 /\ FN2 = 0
    /\ out_lines = <<>>
    /\ res_val = NoResult
    /\ res_te = NoResult
    /\ best_f1 = FlFromFrac(Frac(-1, 1))
    /\ best_iter = -1
    /\ val_scores = <<>>
    /\ saved = <<>>
    /\ tag_loss = NoLoss /\ class_loss = NoLoss /\ total_loss = NoLoss
    /\ grad = <<>>

NextEpoch ==
    \/ EpochStart
    \/ TrainBatch
    \/ EpochEval
    \/ DecodeOpen
    \/ DecodeBatch
    \/ DecodeExample
    \/ DecodeReturn
    \/ Checkpoint

SpecEpoch == InitEpoch /\ [][NextEpoch]_vars

\* ================================================================= claims
\* the sequence framed by the implicit outer 'O' tags
Framed(seq) == <<"O">> \o seq \o <<"O">>

\* a step of the per-example loop: one more line is in the output file
ExampleScored == pc = "decode_example" /\ Len(out_lines') = Len(out_lines) + 1

\* the example that step scores: the next one of the split in stored order
NextExample == DataOf(split)[Len(out_lines) + 1]

\* C1: every example changes the slot counters by exact-triple membership
\* counting over the chunks of the prediction cut to the example's true length
\* and the chunks of the gold tags: TP by the predicted chunks that are gold
\* chunks, FP by the predicted chunks that are not, FN by the gold chunks that
\* are not predicted.
C1_SlotMembershipCounting ==
    [][ExampleScored =>
         LET ex == NextExample
             row == pred'.pred_line
             P == get_chunks(Framed([k \in 1 .. Len(ex.words) |-> TagOf(row[k])]))
             G == get_chunks(Framed(LabSeq(ex.raw_tags)))
         IN  /\ TP' - TP = Cardinality({k \in DOMAIN P : \E m \in DOMAIN G : G[m] = P[k]})
             /\ FP' - FP = Cardinality({k \in DOMAIN P : \A m \in DOMAIN G : G[m] # P[k]})
             /\ FN' - FN = Cardinality({m \in DOMAIN G : \A k \in DOMAIN P : P[k] # G[m]})]_vars

\* gold (a,0,1) predicted (a,0,1),(b,2,2) gave TP=1, FP=1, FN=0; then a
\* one-token example whose padded row was cut to its length scored a hit
C1_Witness ==
    /\ Len(out_lines) = 2
    /\ DataOf(split)[1] = P1
    /\ Len(DataOf(split)[2].words) = 1
    /\ Len(pred.pred_line) = 3
    /\ TP = 2 /\ FP = 1 /\ FN = 0

\* C2: at the end of every decode pass, for the slot and for the intent task,
\* precision = 100*TP/(TP+FP), recall = 100*TP/(TP+FN), F1 =
\* 100*2*TP/(2*TP+FP+FN) when TP > 0, all three are exactly 0 when TP = 0, and
\* no division by zero happens.
IsRatio(v, num, den) == v.d # 0 /\ v.n * den = num * v.d

MetricsOf(p, r, f, tp, fp, fn) ==
    IF tp > 0
    THEN /\ IsRatio(p, 100 * tp, tp + fp)
         /\ IsRatio(r, 100 * tp, tp + fn)
         /\ IsRatio(f, 100 * 2 * tp, 2 * tp + fp + fn)
    ELSE p = Zero /\ r = Zero /\ f = Zero

C2_MetricsFromCounters ==
    [][pc = "decode_return" =>
         LET res == IF split = "valid" THEN res_val' ELSE res_te'
         IN  /\ error' = ""
             /\ MetricsOf(res.p, res.r, res.f, TP, FP, FN)
             /\ MetricsOf(res.cp, res.cr, res.cf, TP2, FP2, FN2)]_vars

\* a test pass returned slot F1 = 66.67 and, with no intent task, intent 0/0/0
C2_Witness ==
    /\ pc = "checkpoint"
    /\ res_te.f = Frac(200, 3)
    /\ opt.task_sc = "None"
    /\ res_te.cp = Zero /\ res_te.cr = Zero /\ res_te.cf = Zero

\* C3: in multi-label mode the predicted intents of an example are exactly
\* the labels whose probability exceeds 0.5, and the intent counters change by
\* membership counting against the gold set.
C3_MultiLabelIntentCounting ==
    [][(ExampleScored /\ opt.task_sc # "None" /\ opt.multiClass) =>
         LET ex == NextExample
             S == {ClassOf(c) : c \in {d \in ClassIds : 2 * pred'.probs[d + 1] > 100}}
             G == {ClassOf(c) : c \in Range(ex.cls_multi)}
             InS(c) == c \in S
             line == out_lines'[Len(out_lines')]
         IN  /\ TP2' - TP2 = Cardinality(S \cap G)
             /\ FP2' - FP2 = Cardinality(S \ G)
             /\ FN2' - FN2 = Cardinality(G \ S)
             /\ line.pred_class_str = JoinStr(SelectSeq(idx_to_class, InS), ";")]_vars

\* gold {A,B}, predicted {B,C}: TP2=1, FP2=1, FN2=1
C3_Witness ==
    /\ opt.task_sc # "None" /\ opt.multiClass
    /\ Len(out_lines) = 1
    /\ DataOf(split)[1] = P2
    /\ pred.probs = <<25, 75, 75>>
    /\ TP2 = 1 /\ FP2 = 1 /\ FN2 = 1

\* C4 as claimed: in single-label mode the intent counters change by
\* membership counting of the predicted-id set {argmax} against the gold-id
\* set, for every form of the gold intent.
SingleLabelScored == ExampleScored /\ opt.task_sc # "None" /\ ~opt.multiClass

GoldSetOf(ex) == IF ex.cls_single.isint THEN {ClassOf(ex.cls_single.id)} ELSE ex.cls_single.names

C4_SingleLabelMembershipCounting ==
    [][SingleLabelScored =>
         LET S == {ClassOf(pred'.argmax)}
             G == GoldSetOf(NextExample)
         IN  /\ TP2' - TP2 = Cardinality(S \cap G)
             /\ FP2' - FP2 = Cardinality(S \ G)
             /\ FN2' - FN2 = Cardinality(G \ S)]_vars

\* C4 amended: in single-label mode an example adds 1 to TP2 when the argmax
\* label is in the gold set and otherwise 1 to FP2 and 1 to FN2; this is
\* membership counting whenever the gold intent is a single id.
C4_SingleLabelHitOrMiss ==
    [][SingleLabelScored =>
         LET c == ClassOf(pred'.argmax)
             G == GoldSetOf(NextExample)
             d == <<TP2' - TP2, FP2' - FP2, FN2' - FN2>>
         IN  /\ d = IF c \in G THEN <<1, 0, 0>> ELSE <<0, 1, 1>>
             /\ NextExample.cls_single.isint =>
                    d = <<Cardinality({c} \cap G), Cardinality({c} \ G), Cardinality(G \ {c})>>]_vars

\* gold {A,B} given as names, argmax in it: one TP2 and no FN2; then a single
\* gold id that was missed: one FP2 and one FN2
C4_Witness ==
    /\ opt.task_sc # "None" /\ ~opt.multiClass
    /\ Len(out_lines) = 2
    /\ DataOf(split)[1] = P2
    /\ DataOf(split)[2].cls_single.isint
    /\ TP2 = 1 /\ FP2 = 1 /\ FN2 = 1

\* C5: the six counters are zero when a decode pass starts, never negative,
\* never decreased while the pass runs, and hold at the end of the pass what
\* that pass alone counted (TP + FN is the number of gold chunks of its split).
RECURSIVE GoldChunkTotal(_)
GoldChunkTotal(data) ==
    IF Len(data) = 0 THEN 0
    ELSE Len(get_chunks(Framed(LabSeq(data[1].raw_tags)))) + GoldChunkTotal(Tail(data))

Counters == <<TP, FP, FN, TP2, FP2, FN2>>

C5_CountersOfOnePass ==
    [][/\ \A k \in 1 .. 6 : Counters'[k] >= 0
       /\ pc = "decode_open" => \A k \in 1 .. 6 : Counters'[k] = 0
       /\ pc \in {"decode_batch", "decode_example"} => \A k \in 1 .. 6 : Counters'[k] >= Counters[k]
       /\ pc' = "decode_return" => TP' + FN' = GoldChunkTotal(DataOf(split'))]_vars

\* the validation pass scored hits, the test pass after it ended with none
C5_Witness ==
    /\ pc = "decode_return"
    /\ split = "test"
    /\ FracLess(Zero, res_val.f)
    /\ Len(out_lines) > 1
    /\ TP = 0 /\ FN > 0

\* C6: the checkpoint is saved in epoch i exactly when the combined validation
\* score of epoch i (st_weight*slot_F1 + (1-st_weight)*intent_F1 with the
\* intent task on, slot_F1 otherwise, as the double the script computes: the
\* nearest double of the exact value or a few units in the last place off it)
\* is strictly greater than that of every earlier epoch; an equal score saves
\* nothing; best_f1 never decreases.
C6_SaveOnStrictImprovement ==
    [][pc = "checkpoint" =>
         LET w == opt.st_weight
             f == res_val.f
             cf == res_val.cf
             on == opt.task_sc # "None"
             num == IF on THEN w.n * f.n * cf.d + (w.d - w.n) * cf.n * f.d ELSE f.n
             den == IF on THEN w.d * f.d * cf.d ELSE f.d
             exact == FlFromFrac(Frac(num, den))
             score == val_scores'[i + 1]
             off == FlSub(score, exact)
             Beats(k) == FlLess(val_scores[k], score)
         IN  /\ Len(val_scores') = i + 1
             /\ off = FlZero \/ (on /\ off.e + 53 <= exact.e + 3)
             /\ (saved' # saved) <=> \A k \in DOMAIN val_scores : Beats(k)
             /\ (saved' # saved) => saved' = Append(saved, i) /\ "model.tag" \in files_written'
             /\ (saved' # saved) => best_f1' = score
             /\ (saved' = saved) => best_f1' = best_f1 /\ files_written' = files_written
             /\ ~FlLess(best_f1', best_f1)]_vars

\* the second epoch scored exactly what the first did and saved nothing
C6_Witness ==
    /\ Len(val_scores) = 2
    /\ val_scores[1] = val_scores[2]
    /\ FlLess(FlZero, val_scores[1])
    /\ opt.task_sc # "None"
    /\ saved = <<0>>

\* C7: a command line with st_weight outside (0,1], an unknown task_st,
\* task_sc or sc_type, or testing / out_path / read_model not all set or all
\* unset stops at the configuration checks: nothing is read, no name is
\* bound, no model is built.
BadCommandLine ==
    \/ opt.st_weight.n <= 0
    \/ opt.st_weight.n > opt.st_weight.d
    \/ opt.task_st \notin {"slot_tagger_sen_level", "slot_tagger_with_crf_sen_level"}
    \/ opt.task_sc \notin {"none", "2tails", "maxPooling", "hiddenCNN", "hiddenAttention", "None"}
    \/ opt.sc_type \notin {"single_cls_CE", "multi_cls_BCE"}
    \/ Cardinality({opt.testing, opt.out_path, opt.read_model}) # 1

C7_ConfigErrorsAbortBeforeLoading ==
    /\ BadCommandLine => /\ pc \in {"config", "aborted"}
                         /\ files_read = {}
                         /\ defined = {}
    /\ pc = "aborted" => BadCommandLine /\ error = "AssertionError"

\* evaluation requested without a model path: stopped by the assert
C7_Witness ==
    /\ pc = "aborted"
    /\ opt.testing /\ opt.out_path /\ ~opt.read_model
    /\ files_read = {}

IsPrefixOf(a, b) == Len(a) <= Len(b) /\ \A k \in DOMAIN a : a[k] = b[k]

\* the training half of C8: in every epoch the index array is shuffled once,
\* before the minibatch loop, and the minibatches visit every training
\* example once, in the shuffled order
C8_TrainingVisitOrder ==
    /\ pc \in {"train", "eval"} =>
           /\ shuffles = i + 1
           /\ IsPrefixOf(visited, train_data_index)
           /\ Len(visited) = Min(j, Len(corpus.train))
    /\ pc = "eval" =>
           /\ visited = train_data_index
           /\ \A e \in 0 .. (Len(corpus.train) - 1) : Cardinality({k \in DOMAIN visited : visited[k] = e}) = 1

\* the decode half of C8: a decode pass does no shuffling, visits the examples
\* of its split in stored order 0, 1, 2, ..., and is not cut short before it
\* has visited each of them once
C8_DecodeVisitOrder ==
    /\ pc \in {"decode_batch", "decode_example", "decode_return"} =>
           /\ shuffles = i + 1
           /\ \A k \in DOMAIN visited : visited[k] = k - 1
    /\ pc = "decode_return" => Len(visited) = Len(DataOf(split))
    /\ error \notin {"RuntimeError", "IndexError"}

\* C8: in every training epoch the index array is shuffled once, before the
\* minibatch loop, and the minibatches visit every training example once in
\* the shuffled order; every decode pass visits the examples of its split in
\* stored order 0, 1, 2, ..., each once, for every batch size.
C8_VisitOrder == C8_TrainingVisitOrder /\ C8_DecodeVisitOrder

\* C9: every decode pass writes one line per example of the split, in visit
\* order, made of one word:gold:pred item per real token and the two ';'-joined
\* intent strings, and a stand-alone evaluation run writes its lines with the
\* line number and a separator in front.
LineOf(k) ==
    LET ex == DataOf(split)[k]
        line == out_lines[k]
    IN  /\ Len(line.word_tag_line) = Len(ex.words)
        /\ line.prefix = IF opt.testing THEN <<ToString(ex.line_num), " : ">> ELSE <<>>

ResultFiles == files_written \ {"log_train.txt", "log_test.txt", "model.tag", "model.class"}

C9_OneLinePerExample ==
    /\ pc = "decode_return" =>
           /\ Len(out_lines) = Len(DataOf(split))
           /\ \A k \in DOMAIN out_lines : LineOf(k)
    /\ (opt.testing /\ pc \in {"done", "crashed"}) => ResultFiles # {}

\* C10: a stand-alone evaluation run (testing, read_model and out_path given)
\* loads the saved parameters once, performs a decode pass and reaches its end
\* without reading a name that only training mode binds.
C10_StandaloneEvaluationRuns ==
    (opt.testing /\ opt.out_path /\ opt.read_model) =>
        /\ error # "NameError"
        /\ pc \in {"done", "crashed"} => loads = 1

\* C11: when the tag vocabulary read from the vocabulary file has no '<pad>',
\* the run stops with KeyError at the construction of the loss weight mask
\* (line 253) if it gets that far, and it never gets further: no training
\* minibatch, no decode pass, no checkpoint and no result file before the
\* failure (the log file is the only file created).
PadMissing == "tag_to_idx" \in defined /\ "<pad>" \notin DOMAIN tag_to_idx

C11_MissingPadFailsFast ==
    PadMissing =>
        /\ pc \in {"tagger", "classifier", "device", "init", "loss", "crashed"}
        /\ "weight_mask" \in defined =>
               /\ pc = "crashed"
               /\ error = "KeyError"
               /\ "tag_loss_function" \notin defined
               /\ "optimizer" \notin defined
        /\ visited = <<>> /\ j = 0 /\ shuffles = 0
        /\ split = "" /\ out_lines = <<>>
        /\ saved = <<>>
        /\ files_written \subseteq {"log_train.txt", "log_test.txt"}

\* a training run of the CRF tagger stopped at line 253
C11_Witness ==
    /\ PadMissing
    /\ pc = "crashed"
    /\ error = "KeyError"
    /\ "model_tag" \in defined
    /\ "weight_mask" \in defined
    /\ files_read = DataFiles

\* C12: the loss handed to backward() in a training minibatch is
\* st_weight * tag_loss + (1 - st_weight) * class_loss when the intent task is
\* enabled and tag_loss alone otherwise; the intent task is disabled exactly
\* when st_weight is 1 or task_sc was given as 'none', and then the classifier
\* is never built or evaluated and the intent metrics of every decode pass
\* are 0; at st_weight = 1 the formula gives tag_loss whatever the intent loss.
IntentEnabled == opt.task_sc # "None"

Weighted(w, tl, cl) == FracAdd(FracMul(w, tl), FracMul(FracSub(One, w), cl))

LossOfMinibatch ==
    /\ (total_loss # NoLoss /\ IntentEnabled) =>
           /\ class_loss \in LossValues
           /\ total_loss = Weighted(opt.st_weight, tag_loss, class_loss)
    /\ (total_loss # NoLoss /\ ~IntentEnabled) =>
           /\ total_loss = tag_loss
           /\ class_loss = NoLoss
           /\ FracEq(opt.st_weight, One) =>
                  \A cl \in LossValues : total_loss = Weighted(opt.st_weight, tag_loss, cl)
    /\ (pc \notin {"config", "aborted"} /\ ~IntentEnabled) =>
           /\ defined \cap {"model_class", "encoder_info_filter", "class_loss_function"} = {}
           /\ pred.probs = <<>> /\ pred.argmax = -1
           /\ TP2 = 0 /\ FP2 = 0 /\ FN2 = 0
           /\ \A res \in {res_val, res_te} : res.cp = Zero /\ res.cr = Zero /\ res.cf = Zero
           /\ pc = "decode_return" =>
                  DecodeResult.cp = Zero /\ DecodeResult.cr = Zero /\ DecodeResult.cf = Zero

C12_WeightedJointLoss ==
    [][/\ (pc = "config" /\ pc' = "paths") =>
              ((opt'.task_sc # "None") <=> ~(FracEq(opt.st_weight, One) \/ opt.task_sc = "none"))
       /\ (pc # "config" /\ pc' # "aborted") => opt'.task_sc = opt.task_sc /\ opt'.st_weight = opt.st_weight
       /\ LossOfMinibatch
       /\ pc' \in {"done", "crashed"} => LossOfMinibatch']_vars

\* a minibatch of a joint run whose two losses differ
C12_Witness ==
    /\ pc = "eval"
    /\ IntentEnabled
    /\ FracEq(opt.st_weight, Frac(1, 4))
    /\ tag_loss = Frac(3, 1) /\ class_loss = Frac(1, 2)
    /\ total_loss = Frac(9, 8)

\* C13: at every optimizer step the gradient held by the parameters comes
\* from the backward call of the current minibatch only; what earlier
\* minibatches of this or an earlier epoch left there has been cleared.
C13_GradientOfCurrentBatchOnly ==
    (pc \in {"train", "eval"} /\ total_loss # NoLoss) => grad = << <<i, j - opt.batchSize>> >>

\* C14: for both accepted values of task_st the tagger model_tag has been
\* constructed when the script reaches its first use (model_tag.to(device) at
\* line 236) and every later use, so an accepted command line never runs
\* into an undefined model.
UsesModelTag == pc \in {"device", "init", "loss", "optimizer", "mode", "epoch", "train", "eval",
                        "decode_open", "decode_batch", "decode_example", "decode_return", "checkpoint"}

C14_TaggerBuiltBeforeUse == UsesModelTag => "model_tag" \in defined

\* C15: in every batch of a decode pass the sentence-feature minibatch
\* (input_sens) holds the same examples, in the same order, as the token
\* minibatch (inputs, tags, classes, lens), whatever batchSize and
\* test_batchSize are.
C15_SentenceBatchMatchesTokenBatch ==
    pc = "decode_example" => mb.sens = mb.ix

====
